---- MODULE Spec2Model ----
(***************************************************************************)
(* Cabide: a typed, block-structured, single-file record store.            *)
(* The file is a flat sequence of bytes; a Cabide holds the file, the      *)
(* next_block cursor and the empty_blocks index (run length -> offsets).   *)
(***************************************************************************)
EXTENDS Integers, Sequences, FiniteSets, TLC

\* ------------------------------------------------------------ protocol.rs

END_BYTE == 8

BLOCK_SIZE == 30

CONTENT_SIZE == BLOCK_SIZE - 2

MetadataEmpty == 0

MetadataStart == 1

MetadataContinuation == 2

\* ------------------------------------------------------------------ bounds

\* The file never grows beyond MaxBlocks blocks.
MaxBlocks == 3

\* The empty_blocks index never holds more than MaxRuns offsets.
MaxRuns == 2

\* Cabide::new is asked for 1..MaxPrefill blocks, or for none.
MaxPrefill == 2

\* No shard of a HashCabide grows beyond MaxShardBlocks blocks.
MaxShardBlocks == 2

\* The blocks of unordered_buffer at which OrderCabide::write flushes it:
\* 200 in order.rs, fewer here.
BUFFER_MAX_BLOCKS == 3

\* An OrderCabide is written to BUFFER_MAX_BLOCKS + MaxExtraWrites times.
MaxExtraWrites == 2

\* The calls of OrderCabide::remove in one run.
MaxOrderRemoves == 1

\* ----------------------------------------------------------------- helpers

Min(S) == CHOOSE x \in S : \A y \in S : x <= y

Max(S) == CHOOSE x \in S : \A y \in S : x >= y

Range(s) == {s[i] : i \in 1..Len(s)}

Front(s) == SubSeq(s, 1, Len(s) - 1)

Last(s) == s[Len(s)]

Zeros(n) == [i \in 1..n |-> MetadataEmpty]

\* (x as f64 / y as f64).ceil() as u64
CeilDiv(x, y) == (x + y - 1) \div y

\* --------------------------------------------------------------- the codec
\* The bound type T is a byte string; bincode writes its length, then its
\* bytes (the length prefix is one byte wide here).  deserialize_from reads
\* the prefix and then that many bytes from the cursor, ignores what is left
\* and fails when the cursor ends early.

serialize(obj) == <<Len(obj)>> \o obj

Ok(obj) == [kind |-> "Ok", obj |-> obj]

Err(kind) == [kind |-> kind, obj |-> <<>>]

deserialize_from(content) ==
    IF Len(content) >= 1 /\ Len(content) >= 1 + content[1]
    THEN Ok(SubSeq(content, 2, 1 + content[1]))
    ELSE Err("CorruptedBlock")

\* ---------------------------------------------------------------- the file

\* file.metadata().len() in blocks, rounded up
blocks(f) == CeilDiv(Len(f), BLOCK_SIZE)

\* seek(Start(pos)) then write_all(bytes): overwrites, and extends the file
\* (a hole is zero filled) when the write passes its end
WriteAt(f, pos, bytes) ==
    IF pos >= Len(f)
    THEN f \o Zeros(pos - Len(f)) \o bytes
    ELSE SubSeq(f, 1, pos) \o bytes \o SubSeq(f, pos + Len(bytes) + 1, Len(f))

\* file.set_len(len): truncates or zero-extends
SetLen(f, len) ==
    IF len <= Len(f) THEN SubSeq(f, 1, len) ELSE f \o Zeros(len - Len(f))

\* the metadata byte of a block (the block must lie in the file)
TagAt(f, block) == f[block * BLOCK_SIZE + 1]

\* ------------------------------------------------------------ empty_blocks
\* BTreeMap<usize, Vec<u64>>: a function from the keys present to sequences.

NoRuns == [k \in {} |-> <<>>]

\* .entry(size).and_modify(|vec| vec.push(index)).or_insert_with(|| vec![index])
PushRun(map, size, index) ==
    IF size \in DOMAIN map
    THEN [map EXCEPT ![size] = Append(@, index)]
    ELSE [k \in DOMAIN map \cup {size} |-> IF k = size THEN <<index>> ELSE map[k]]

\* BTreeMap::remove
RemoveKey(map, key) == [k \in DOMAIN map \ {key} |-> map[k]]

RECURSIVE SumLens(_, _)
SumLens(map, keys) ==
    IF keys = {} THEN 0
    ELSE LET k == CHOOSE x \in keys : TRUE
         IN  Len(map[k]) + SumLens(map, keys \ {k})

TotalRuns(map) == SumLens(map, DOMAIN map)

\* ------------------------------------------------------ read_update_metadata

\* The loop over the blocks of one object, the file cursor at byte pos.
\* kind is "done" when the loop is left by a break, else the error returned
\* from inside it; count is the number of blocks visited (empty_block's size).
RECURSIVE ReadLoop(_, _, _, _, _, _)
ReadLoop(f, pos, expected_metadata, content, count, empty_read_blocks) ==
    IF pos >= Len(f)
    THEN [kind |-> "done", file |-> f, content |-> content, count |-> count]
    ELSE LET metadata == f[pos + 1]
         IN  IF content = <<>> /\ metadata # expected_metadata
             THEN [kind |-> IF metadata = MetadataEmpty
                            THEN "EmptyBlock" ELSE "ContinuationBlock",
                   file |-> f, content |-> content, count |-> count]
             ELSE IF metadata # expected_metadata
             THEN [kind |-> "done", file |-> f, content |-> content, count |-> count]
             ELSE LET f1    == IF empty_read_blocks
                               THEN WriteAt(f, pos, <<MetadataEmpty>>) ELSE f
                      avail == Min({CONTENT_SIZE, Len(f) - (pos + 1)})
                      chunk == SubSeq(f1, pos + 2, pos + 1 + avail)
                 IN  ReadLoop(f1, pos + 1 + avail + 1, MetadataContinuation,
                              content \o chunk, count + 1, empty_read_blocks)

\* while content.last() == Some(&(Metadata::Empty as u8)) { truncate }
RECURSIVE StripPadding(_)
StripPadding(content) ==
    IF content # <<>> /\ Last(content) = MetadataEmpty
    THEN StripPadding(Front(content))
    ELSE content

\* if content.last() == Some(&END_BYTE) { truncate }
StripEnd(content) ==
    IF content # <<>> /\ Last(content) = END_BYTE THEN Front(content) ELSE content

\* The index after the loop: the visited run is pushed when blocks were emptied.
ReleaseRun(map, block, count, empty_read_blocks) ==
    IF empty_read_blocks /\ count > 0 THEN PushRun(map, count, block) ELSE map

\* read_update_metadata, were the visited run released when the head is wrong
read_update_metadataReleaseAlways(f, map, block, empty_read_blocks) ==
    LET loop == ReadLoop(f, block * BLOCK_SIZE, MetadataStart, <<>>, 0,
                         empty_read_blocks)
    IN  IF loop.kind # "done"
        THEN [file |-> loop.file,
              empty_blocks |-> IF empty_read_blocks THEN PushRun(map, 1, block) ELSE map,
              res |-> Err(loop.kind), count |-> loop.count]
        ELSE [file |-> loop.file,
              empty_blocks |-> ReleaseRun(map, block, loop.count, empty_read_blocks),
              res |-> deserialize_from(StripEnd(StripPadding(loop.content))),
              count |-> loop.count]

\* read_update_metadata, were the blocks emptied whatever empty_read_blocks says
read_update_metadataEmptying(f, map, block, empty_read_blocks) ==
    LET loop == ReadLoop(f, block * BLOCK_SIZE, MetadataStart, <<>>, 0, TRUE)
    IN  IF loop.kind # "done"
        THEN [file |-> loop.file, empty_blocks |-> map, res |-> Err(loop.kind),
              count |-> loop.count]
        ELSE [file |-> loop.file,
              empty_blocks |-> ReleaseRun(map, block, loop.count, empty_read_blocks),
              res |-> deserialize_from(StripEnd(StripPadding(loop.content))),
              count |-> loop.count]

read_update_metadata(f, map, block, empty_read_blocks) ==
    LET loop == ReadLoop(f, block * BLOCK_SIZE, MetadataStart, <<>>, 0,
                         empty_read_blocks)
    IN  IF loop.kind # "done"
        THEN [file |-> loop.file, empty_blocks |-> map, res |-> Err(loop.kind),
              count |-> loop.count]
        ELSE [file |-> loop.file,
              empty_blocks |-> ReleaseRun(map, block, loop.count, empty_read_blocks),
              res |-> deserialize_from(StripEnd(StripPadding(loop.content))),
              count |-> loop.count]

\* Cabide::read: the result alone (the file and the index are left as they are)
read(f, block) == read_update_metadata(f, NoRuns, block, FALSE).res

\* FirstFrom, were every error skipped as filter skips it
RECURSIVE FirstFromSkipping(_, _, _)
FirstFromSkipping(f, block, wanted) ==
    IF block >= blocks(f) THEN Err("None")
    ELSE LET r == read(f, block)
         IN  IF r.kind = "Ok" /\ r.obj \in wanted THEN r
             ELSE FirstFromSkipping(f, block + 1, wanted)

\* Cabide::first with the predicate "the object is in wanted"
RECURSIVE FirstFrom(_, _, _)
FirstFrom(f, block, wanted) ==
    IF block >= blocks(f) THEN Err("None")
    ELSE LET r == read(f, block)
         IN  IF r.kind = "Ok"
             THEN IF r.obj \in wanted THEN r ELSE FirstFrom(f, block + 1, wanted)
             ELSE IF r.kind \in {"EmptyBlock", "ContinuationBlock"}
             THEN FirstFrom(f, block + 1, wanted)
             ELSE Err("None")

\* FirstFrom, were ContinuationBlock not skipped
RECURSIVE FirstFromHeadsOnly(_, _, _)
FirstFromHeadsOnly(f, block, wanted) ==
    IF block >= blocks(f) THEN Err("None")
    ELSE LET r == read(f, block)
         IN  IF r.kind = "Ok"
             THEN IF r.obj \in wanted THEN r ELSE FirstFromHeadsOnly(f, block + 1, wanted)
             ELSE IF r.kind = "EmptyBlock"
             THEN FirstFromHeadsOnly(f, block + 1, wanted)
             ELSE Err("None")

\* first, were ContinuationBlock not skipped
firstHeadsOnly(f, wanted) == FirstFromHeadsOnly(f, 0, wanted)

first(f, wanted) == FirstFrom(f, 0, wanted)

\* Cabide::filter with the predicate "the object is in wanted"
RECURSIVE FilterFrom(_, _, _)
FilterFrom(f, block, wanted) ==
    IF block >= blocks(f) THEN <<>>
    ELSE LET r == read(f, block)
         IN  (IF r.kind = "Ok" /\ r.obj \in wanted THEN <<r.obj>> ELSE <<>>)
             \o FilterFrom(f, block + 1, wanted)

filter(f, wanted) == FilterFrom(f, 0, wanted)

\* ------------------------------------------------------------ Cabide::write

\* raw.len() / (CONTENT_SIZE as usize)
blocks_needed(raw) == Len(raw) \div CONTENT_SIZE

\* Fits, were the run measured against blocks_needed
FitsBlocksNeeded(run_blocks, raw) == run_blocks >= blocks_needed(raw)

\* *blocks * (CONTENT_SIZE as usize) >= raw.len()
Fits(run_blocks, raw) == run_blocks * CONTENT_SIZE >= Len(raw)

\* block_vec.pop(): the offset taken and the vector left
pop(block_vec) == [block |-> Last(block_vec), rest |-> Front(block_vec)]

\* Some((*blocks - blocks_needed, index + blocks_needed))
remaining_blocks(run_blocks, index, raw) ==
    [blocks |-> run_blocks - blocks_needed(raw), index |-> index + blocks_needed(raw)]

\* first_key, were the BTreeMap walked from its longest runs down
first_keyDescending(keys) == Max(keys)

\* for (blocks, block_vec) in &mut self.empty_blocks: a BTreeMap yields its
\* keys in ascending order, so the first of keys it comes to is the least.
first_key(keys) == Min(keys)

\* The loop over the index in ascending key order and the two updates after
\* it.  found: a run was popped; run: its key; starting_block: its offset.
Allocate(map, raw) ==
    LET fitting == {k \in DOMAIN map : Fits(k, raw)}
        hits    == {k \in fitting : map[k] # <<>>}
        found   == hits # {}
        run     == IF found THEN first_key(hits) ELSE 0
        \* the fitting buckets the loop saw empty before it stopped
        empties == {k \in fitting : map[k] = <<>> /\ (found => k < run)}
        taken   == IF found THEN pop(map[run]) ELSE [block |-> 0, rest |-> <<>>]
        popped  == IF found THEN [map EXCEPT ![run] = taken.rest] ELSE map
        \* delete_block: only the first empty leaf is removed
        pruned  == IF empties # {} THEN RemoveKey(popped, Min(empties)) ELSE popped
        rem     == remaining_blocks(run, taken.block, raw)
    IN  [found          |-> found,
         run            |-> run,
         starting_block |-> taken.block,
         empty_blocks   |-> IF found THEN PushRun(pruned, rem.blocks, rem.index)
                            ELSE pruned]

\* AdvanceNextBlock, were the cursor moved by blocks_needed
AdvanceByBlocksNeeded(cursor, raw) == cursor + blocks_needed(raw)

\* self.next_block += ((raw.len() as f64) / (CONTENT_SIZE as f64)).ceil() as u64
AdvanceNextBlock(cursor, raw) == cursor + CeilDiv(Len(raw), CONTENT_SIZE)

\* Chunks, were metadata never set to Continuation
RECURSIVE ChunksAllStart(_, _)
ChunksAllStart(raw, metadata) ==
    IF raw = <<>> THEN <<>>
    ELSE LET n == Min({CONTENT_SIZE, Len(raw)})
         IN  <<metadata>> \o SubSeq(raw, 1, n) \o <<END_BYTE>>
             \o ChunksAllStart(SubSeq(raw, n + 1, Len(raw)), metadata)

\* for buff in raw.chunks(CONTENT_SIZE): metadata, buff, END_BYTE
RECURSIVE Chunks(_, _)
Chunks(raw, metadata) ==
    IF raw = <<>> THEN <<>>
    ELSE LET n == Min({CONTENT_SIZE, Len(raw)})
         IN  <<metadata>> \o SubSeq(raw, 1, n) \o <<END_BYTE>>
             \o Chunks(SubSeq(raw, n + 1, Len(raw)), MetadataContinuation)

\* Framed, were the last block not padded
FramedUnpadded(raw) == Chunks(raw, MetadataStart)

\* The bytes one write puts in the file: the chunks, then the padding that
\* fills the last block.
Framed(raw) ==
    LET written == Chunks(raw, MetadataStart)
        nblocks == CeilDiv(Len(raw), CONTENT_SIZE)
    IN  written \o Zeros(nblocks * BLOCK_SIZE - Len(written))

\* -------------------------------------------------------------- Cabide::new

None == [some |-> FALSE, v |-> 0]

Some(v) == [some |-> TRUE, v |-> v]

\* KeepPrefill, were the request never filtered
KeepAnyPrefill(cursor, wanted) == TRUE

\* KeepPrefill, were the comparison <=
KeepPrefillInclusive(cursor, wanted) ==
    (IF cursor = 0 THEN 0 ELSE cursor - 1) <= wanted

\* blocks.filter(|blocks| next_block.saturating_sub(1) < *blocks)
KeepPrefill(cursor, wanted) ==
    (IF cursor = 0 THEN 0 ELSE cursor - 1) < wanted

\* for curr_block in 0..next_block: the chain of empty blocks and the index
RECURSIVE Scan(_, _, _, _, _)
Scan(f, curr_block, cursor, empty_block, map) ==
    IF curr_block >= cursor \/ curr_block * BLOCK_SIZE >= Len(f)
    THEN map
    ELSE LET metadata == TagAt(f, curr_block)
         IN  IF empty_block.some
             THEN IF metadata = MetadataEmpty
                  THEN Scan(f, curr_block + 1, cursor,
                            [empty_block EXCEPT !.size = @ + 1], map)
                  ELSE Scan(f, curr_block + 1, cursor,
                            [some |-> FALSE, current |-> 0, size |-> 0],
                            PushRun(map, empty_block.size, empty_block.current))
             ELSE IF metadata = MetadataEmpty
             THEN Scan(f, curr_block + 1, cursor,
                       [some |-> TRUE, current |-> curr_block, size |-> 1], map)
             ELSE Scan(f, curr_block + 1, cursor, empty_block, map)

\* Cabide::new on a file holding f: the file, cursor and index of the new store
new(f, wanted) ==
    LET parsed  == Len(f) > 0
        cursor  == IF parsed THEN blocks(f) ELSE 0
        prefill == IF parsed /\ wanted.some /\ ~KeepPrefill(cursor, wanted.v)
                   THEN None ELSE wanted
        map     == IF parsed
                   THEN Scan(f, 0, cursor,
                             [some |-> FALSE, current |-> 0, size |-> 0], NoRuns)
                   ELSE NoRuns
    IN  [file         |-> IF prefill.some THEN SetLen(f, prefill.v * BLOCK_SIZE) ELSE f,
         next_block   |-> cursor,
         empty_blocks |-> map]

\* ------------------------------------------------------- a Cabide as a value
\* The record new returns: file, next_block, empty_blocks.

\* Cabide::write on the store cbd: the store it leaves and the block it returns
write(cbd, obj) ==
    LET raw            == serialize(obj)
        a              == Allocate(cbd.empty_blocks, raw)
        starting_block == IF a.found THEN a.starting_block ELSE cbd.next_block
    IN  [cbd   |-> [file         |-> WriteAt(cbd.file, starting_block * BLOCK_SIZE,
                                             Framed(raw)),
                    next_block   |-> IF a.found THEN cbd.next_block
                                     ELSE AdvanceNextBlock(cbd.next_block, raw),
                    empty_blocks |-> a.empty_blocks],
         block |-> starting_block]

\* Cabide::remove on the store cbd: the store it leaves, the Result and the
\* number of blocks it emptied
remove(cbd, block) ==
    LET r == read_update_metadata(cbd.file, cbd.empty_blocks, block, TRUE)
    IN  [cbd   |-> [file         |-> r.file,
                    next_block   |-> cbd.next_block,
                    empty_blocks |-> r.empty_blocks],
         res   |-> r.res,
         count |-> r.count]

\* ----------------------------------------------------------------- hash.rs
\* folder: the shard files there are, by the value that names them;
\* cabides: HashMap<u8, Cabide<T>>, the next_block and empty_blocks of every
\* shard opened (its file is the one in the folder).

\* for value in 0..255
ProbedValues == 0..(255 - 1)

NoShards == [value \in {} |-> <<>>]

\* HashMap::insert, and the write of a shard's file
Insert(map, key, value) ==
    [k \in DOMAIN map \cup {key} |-> IF k = key THEN value ELSE map[k]]

\* The in-memory part of a Cabide
Handle(cbd) == [next_block |-> cbd.next_block, empty_blocks |-> cbd.empty_blocks]

\* The shard of hash: the opened Cabide joined with its file
Shard(dir, map, hash) ==
    [file         |-> dir[hash],
     next_block   |-> map[hash].next_block,
     empty_blocks |-> map[hash].empty_blocks]

\* HashCabide::new: path.is_file() for every probed value, Cabide::new(path, None)
HashCabide_new(dir) ==
    [value \in ProbedValues \cap DOMAIN dir |-> Handle(new(dir[value], None))]

\* HashCabide::write: the folder and the shards it leaves, the handle returned
HashCabide_write(dir, map, hash, obj) ==
    LET cabide == IF hash \in DOMAIN map THEN Shard(dir, map, hash)
                  ELSE new(IF hash \in DOMAIN dir THEN dir[hash] ELSE <<>>, None)
        w      == write(cabide, obj)
    IN  [folder  |-> Insert(dir, hash, w.cbd.file),
         cabides |-> Insert(map, hash, Handle(w.cbd)),
         handle  |-> <<hash, w.block>>]

\* HashCabide::read
HashCabide_read(dir, map, handle) ==
    IF handle[1] \notin DOMAIN map THEN Err("NotExistant")
    ELSE read(dir[handle[1]], handle[2])

\* HashCabide::remove, were a missing shard opened as write opens it
HashCabide_removeOpening(dir, map, handle) ==
    IF handle[1] \notin DOMAIN map
    THEN [folder  |-> Insert(dir, handle[1], <<>>),
          cabides |-> Insert(map, handle[1], Handle(new(<<>>, None))),
          res     |-> Err("NotExistant"),
          count   |-> 0]
    ELSE LET r == remove(Shard(dir, map, handle[1]), handle[2])
         IN  [folder  |-> Insert(dir, handle[1], r.cbd.file),
              cabides |-> Insert(map, handle[1], Handle(r.cbd)),
              res     |-> r.res,
              count   |-> r.count]

\* HashCabide::remove: the folder and the shards it leaves, the Result
HashCabide_remove(dir, map, handle) ==
    IF handle[1] \notin DOMAIN map
    THEN [folder |-> dir, cabides |-> map, res |-> Err("NotExistant"), count |-> 0]
    ELSE LET r == remove(Shard(dir, map, handle[1]), handle[2])
         IN  [folder  |-> Insert(dir, handle[1], r.cbd.file),
              cabides |-> Insert(map, handle[1], Handle(r.cbd)),
              res     |-> r.res,
              count   |-> r.count]

\* The first elements of the lists that have one, and what is left of them.
RECURSIVE Heads(_)
Heads(lists) ==
    IF lists = <<>> THEN <<>>
    ELSE (IF Head(lists) = <<>> THEN <<>> ELSE <<Head(Head(lists))>>)
         \o Heads(Tail(lists))

Tails(lists) == [i \in 1..Len(lists) |-> IF lists[i] = <<>> THEN <<>> ELSE Tail(lists[i])]

RECURSIVE RoundRobin(_)
RoundRobin(lists) ==
    IF Heads(lists) = <<>> THEN <<>> ELSE Heads(lists) \o RoundRobin(Tails(lists))

\* HashCabide::filter, were the shards read side by side, a record of each in turn
HashCabide_filterSideBySide(dir, values, wanted) ==
    RoundRobin([i \in 1..Len(values) |-> filter(dir[values[i]], wanted)])

\* HashCabide::filter, the shards visited in the order values_mut() yields them
RECURSIVE HashCabide_filter(_, _, _)
HashCabide_filter(dir, values, wanted) ==
    IF values = <<>> THEN <<>>
    ELSE filter(dir[Head(values)], wanted) \o HashCabide_filter(dir, Tail(values), wanted)

\* ---------------------------------------------------------------- order.rs
\* An OrderCabide is the record of its three stores: unordered_buffer, main
\* and sort_temp.

\* Cabide::truncate: the store is emptied
truncate(cbd) == [file |-> <<>>, next_block |-> 0, empty_blocks |-> NoRuns]

\* The caller's extract_order_field: the first byte of the object.
extract_order_field(obj) == obj[1]

\* The caller's order_function: Ord::cmp
order_function(f1, f2) ==
    IF f1 < f2 THEN "Less" ELSE IF f1 = f2 THEN "Equal" ELSE "Greater"

\* The caller's order_by for the key sought: |field| Ord::cmp(field, target)
order_by(field, target) == order_function(field, target)

\* One step of the stable sort: obj goes behind what is not Greater than it.
InsertSorted(sorted, obj) ==
    LET n == Cardinality({i \in 1..Len(sorted) :
                 order_function(extract_order_field(sorted[i]),
                                extract_order_field(obj)) # "Greater"})
    IN  SubSeq(sorted, 1, n) \o <<obj>> \o SubSeq(sorted, n + 1, Len(sorted))

\* sort_by, were the records left in the order they were collected in
sort_byCollected(vec) == vec

\* main.sort_by(|t1, t2| order_function(extract(t1), extract(t2)))
RECURSIVE sort_by(_)
sort_by(vec) ==
    IF vec = <<>> THEN <<>> ELSE InsertSorted(sort_by(Front(vec)), Last(vec))

\* for obj in main { self.sort_temp.0.write(&obj)?; }
RECURSIVE WriteAll(_, _)
WriteAll(cbd, objs) ==
    IF objs = <<>> THEN cbd ELSE WriteAll(write(cbd, Head(objs)).cbd, Tail(objs))

\* OrderCabide::new
OrderCabide_new ==
    [unordered_buffer |-> new(<<>>, None),
     main             |-> new(<<>>, None),
     sort_temp        |-> new(<<>>, None)]

\* OrderCabide_write, were the buffer flushed only above BUFFER_MAX_BLOCKS
OrderCabide_writeAbove(o, obj, every) ==
    LET buffer == write(o.unordered_buffer, obj).cbd
    IN  IF blocks(buffer.file) > BUFFER_MAX_BLOCKS
        THEN LET main == sort_by(filter(o.main.file, every) \o filter(buffer.file, every))
                 temp == WriteAll(truncate(o.sort_temp), main)
             IN  [unordered_buffer |-> truncate(buffer),
                  main             |-> [o.main EXCEPT !.file = temp.file],
                  sort_temp        |-> truncate(temp)]
        ELSE [o EXCEPT !.unordered_buffer = buffer]

\* OrderCabide::write; every is the set of all objects (the filter |_| true).
\* fs::copy puts the bytes of sort_temp in the file of main, whose Cabide
\* keeps its next_block and empty_blocks.
OrderCabide_write(o, obj, every) ==
    LET buffer == write(o.unordered_buffer, obj).cbd
    IN  IF blocks(buffer.file) >= BUFFER_MAX_BLOCKS
        THEN LET main == sort_by(filter(o.main.file, every) \o filter(buffer.file, every))
                 temp == WriteAll(truncate(o.sort_temp), main)
             IN  [unordered_buffer |-> truncate(buffer),
                  main             |-> [o.main EXCEPT !.file = temp.file],
                  sort_temp        |-> truncate(temp)]
        ELSE [o EXCEPT !.unordered_buffer = buffer]

\* Probe, were the walk to the right never followed by one to the left
RECURSIVE ProbeRightOnly(_, _, _, _, _, _, _)
ProbeRightOnly(f, target, block, has_found_something, going, vec, seen) ==
    LET nblocks == blocks(f)
        pass    == <<block, has_found_something, going>>
        r       == read(f, block)
        after   == Append(seen, pass)
        ord     == order_by(extract_order_field(r.obj), target)
    IN  IF pass \in Range(seen) THEN [returned |-> FALSE, vec |-> vec, path |-> seen]
        ELSE IF r.kind = "Ok"
        THEN IF ord = "Equal"
             THEN ProbeRightOnly(f, target, block, TRUE, going, Append(vec, r.obj), after)
             ELSE IF ord = "Less"
             THEN IF block = nblocks THEN [returned |-> TRUE, vec |-> vec, path |-> after]
                  ELSE ProbeRightOnly(f, target, block + (nblocks - block) \div 2, TRUE,
                             "Right", vec, after)
             ELSE IF block = 0 THEN [returned |-> TRUE, vec |-> vec, path |-> after]
                  ELSE ProbeRightOnly(f, target, block - block \div 2, TRUE, "Left", vec, after)
        ELSE IF going = "Left"
        THEN IF block = 0 THEN [returned |-> TRUE, vec |-> vec, path |-> after]
             ELSE ProbeRightOnly(f, target, block - 1, has_found_something, going, vec, after)
        ELSE IF block = nblocks
        THEN [returned |-> TRUE, vec |-> vec, path |-> after]
        ELSE ProbeRightOnly(f, target, block + 1, has_found_something, going, vec, after)

\* The loop of OrderCabide::filter over main.  Its next pass depends on
\* block, has_found_something and going alone, so it never returns once
\* these three come again: returned is FALSE then, and vec what it had
\* pushed by the second time round.  seen and path are the passes made, in
\* order.
RECURSIVE Probe(_, _, _, _, _, _, _)
Probe(f, target, block, has_found_something, going, vec, seen) ==
    LET nblocks == blocks(f)
        pass    == <<block, has_found_something, going>>
        r       == read(f, block)
        after   == Append(seen, pass)
        ord     == order_by(extract_order_field(r.obj), target)
    IN  IF pass \in Range(seen) THEN [returned |-> FALSE, vec |-> vec, path |-> seen]
        ELSE IF r.kind = "Ok"
        THEN IF ord = "Equal"
             THEN Probe(f, target, block, TRUE, going, Append(vec, r.obj), after)
             ELSE IF ord = "Less"
             THEN IF block = nblocks THEN [returned |-> TRUE, vec |-> vec, path |-> after]
                  ELSE Probe(f, target, block + (nblocks - block) \div 2, TRUE,
                             "Right", vec, after)
             ELSE IF block = 0 THEN [returned |-> TRUE, vec |-> vec, path |-> after]
                  ELSE Probe(f, target, block - block \div 2, TRUE, "Left", vec, after)
        ELSE IF going = "Left"
        THEN IF block = 0 THEN [returned |-> TRUE, vec |-> vec, path |-> after]
             ELSE Probe(f, target, block - 1, has_found_something, going, vec, after)
        ELSE IF block = nblocks
        THEN IF has_found_something THEN [returned |-> TRUE, vec |-> vec, path |-> after]
             ELSE Probe(f, target, nblocks \div 2, has_found_something, "Left", vec, after)
        ELSE Probe(f, target, block + 1, has_found_something, going, vec, after)

\* OrderCabide::filter for the key target; every is the set of all objects.
OrderCabide_filter(o, target, every) ==
    LET vec == filter(o.unordered_buffer.file,
                      {obj \in every :
                          order_by(extract_order_field(obj), target) = "Equal"})
    IN  Probe(o.main.file, target, blocks(o.main.file) \div 2, FALSE, "Right", vec, <<>>)

\* Cabide::remove_with with the predicate "the object is in wanted": the
\* traversal of filter, each match removed at its block and collected.
RECURSIVE RemoveWithFrom(_, _, _, _)
RemoveWithFrom(cbd, block, wanted, vec) ==
    IF block >= blocks(cbd.file) THEN [cbd |-> cbd, vec |-> vec]
    ELSE LET r == read(cbd.file, block)
         IN  IF r.kind = "Ok" /\ r.obj \in wanted
             THEN RemoveWithFrom(remove(cbd, block).cbd, block + 1, wanted,
                                 Append(vec, r.obj))
             ELSE RemoveWithFrom(cbd, block + 1, wanted, vec)

remove_with(cbd, wanted) == RemoveWithFrom(cbd, 0, wanted, <<>>)

\* ProbeFirst, were a Less step to add the whole distance to the last block
RECURSIVE ProbeFirstWhole(_, _, _, _, _, _)
ProbeFirstWhole(f, target, block, has_found_something, going, seen) ==
    LET nblocks == blocks(f)
        pass    == <<block, has_found_something, going>>
        r       == read(f, block)
        after   == Append(seen, pass)
        ord     == order_by(extract_order_field(r.obj), target)
    IN  IF pass \in Range(seen) THEN [returned |-> FALSE, res |-> Err("None"), path |-> seen]
        ELSE IF r.kind = "Ok"
        THEN IF ord = "Equal" THEN [returned |-> TRUE, res |-> r, path |-> after]
             ELSE IF ord = "Less"
             THEN IF block = nblocks THEN [returned |-> TRUE, res |-> Err("None"), path |-> after]
                  ELSE ProbeFirstWhole(f, target, block + (nblocks - block), TRUE,
                                  "Right", after)
             ELSE IF block = 0 THEN [returned |-> TRUE, res |-> Err("None"), path |-> after]
                  ELSE ProbeFirstWhole(f, target, block - block \div 2, TRUE, "Left", after)
        ELSE IF going = "Left"
        THEN IF block = 0 THEN [returned |-> TRUE, res |-> Err("None"), path |-> after]
             ELSE ProbeFirstWhole(f, target, block - 1, has_found_something, going, after)
        ELSE IF block = nblocks
        THEN IF has_found_something THEN [returned |-> TRUE, res |-> Err("None"), path |-> after]
             ELSE ProbeFirstWhole(f, target, nblocks \div 2, has_found_something, "Left", after)
        ELSE ProbeFirstWhole(f, target, block + 1, has_found_something, going, after)

\* The loop of OrderCabide::first over main: Probe, but that Equal returns
\* the record read.
RECURSIVE ProbeFirst(_, _, _, _, _, _)
ProbeFirst(f, target, block, has_found_something, going, seen) ==
    LET nblocks == blocks(f)
        pass    == <<block, has_found_something, going>>
        r       == read(f, block)
        after   == Append(seen, pass)
        ord     == order_by(extract_order_field(r.obj), target)
    IN  IF pass \in Range(seen) THEN [returned |-> FALSE, res |-> Err("None"), path |-> seen]
        ELSE IF r.kind = "Ok"
        THEN IF ord = "Equal" THEN [returned |-> TRUE, res |-> r, path |-> after]
             ELSE IF ord = "Less"
             THEN IF block = nblocks THEN [returned |-> TRUE, res |-> Err("None"), path |-> after]
                  ELSE ProbeFirst(f, target, block + (nblocks - block) \div 2, TRUE,
                                  "Right", after)
             ELSE IF block = 0 THEN [returned |-> TRUE, res |-> Err("None"), path |-> after]
                  ELSE ProbeFirst(f, target, block - block \div 2, TRUE, "Left", after)
        ELSE IF going = "Left"
        THEN IF block = 0 THEN [returned |-> TRUE, res |-> Err("None"), path |-> after]
             ELSE ProbeFirst(f, target, block - 1, has_found_something, going, after)
        ELSE IF block = nblocks
        THEN IF has_found_something THEN [returned |-> TRUE, res |-> Err("None"), path |-> after]
             ELSE ProbeFirst(f, target, nblocks \div 2, has_found_something, "Left", after)
        ELSE ProbeFirst(f, target, block + 1, has_found_something, going, after)

\* OrderCabide::first for the key target: the buffer first, main if the
\* buffer gave None.
OrderCabide_first(o, target, every) ==
    LET buffered == first(o.unordered_buffer.file,
                          {obj \in every :
                              order_by(extract_order_field(obj), target) = "Equal"})
    IN  IF buffered.kind = "Ok" THEN [returned |-> TRUE, res |-> buffered, path |-> <<>>]
        ELSE ProbeFirst(o.main.file, target, blocks(o.main.file) \div 2, FALSE,
                        "Right", <<>>)

\* The loop of OrderCabide::remove over main: every pass removes at block
\* and looks at what the removal returned.  The store changes from pass to
\* pass, so a pass comes again only with the same store.
RECURSIVE ProbeRemove(_, _, _, _, _, _, _, _)

\* One pass of that loop, r what self.main.0.remove(block) returned and left.
RemovePass(r, target, block, nblocks, has_found_something, going, vec, seen) ==
    LET ord == order_by(extract_order_field(r.res.obj), target)
    IN  IF r.res.kind = "Ok"
        THEN IF ord = "Equal"
             THEN ProbeRemove(r.cbd, target, block, nblocks, TRUE, going,
                              Append(vec, r.res.obj), seen)
             ELSE IF ord = "Less"
             THEN IF block = nblocks THEN [returned |-> TRUE, vec |-> vec, cbd |-> r.cbd, path |-> seen]
                  ELSE ProbeRemove(r.cbd, target, block + (nblocks - block) \div 2,
                                   nblocks, TRUE, "Right", vec, seen)
             ELSE IF block = 0 THEN [returned |-> TRUE, vec |-> vec, cbd |-> r.cbd, path |-> seen]
                  ELSE ProbeRemove(r.cbd, target, block - block \div 2, nblocks, TRUE,
                                   "Left", vec, seen)
        ELSE IF going = "Left"
        THEN IF block = 0 THEN [returned |-> TRUE, vec |-> vec, cbd |-> r.cbd, path |-> seen]
             ELSE ProbeRemove(r.cbd, target, block - 1, nblocks, has_found_something,
                              going, vec, seen)
        ELSE IF block = nblocks
        THEN IF has_found_something THEN [returned |-> TRUE, vec |-> vec, cbd |-> r.cbd, path |-> seen]
             ELSE ProbeRemove(r.cbd, target, nblocks \div 2, nblocks,
                              has_found_something, "Left", vec, seen)
        ELSE ProbeRemove(r.cbd, target, block + 1, nblocks, has_found_something,
                         going, vec, seen)

ProbeRemove(cbd, target, block, nblocks, has_found_something, going, vec, seen) ==
    IF <<block, has_found_something, going, cbd>> \in Range(seen)
    THEN [returned |-> FALSE, vec |-> vec, cbd |-> cbd, path |-> seen]
    ELSE RemovePass(remove(cbd, block), target, block, nblocks, has_found_something,
                    going, vec,
                    Append(seen, <<block, has_found_something, going, cbd>>))

\* OrderCabide::remove for the key target: remove_with on the buffer, then
\* the loop over main.  order is the OrderCabide it leaves.
OrderCabide_remove(o, target, every) ==
    LET buffered == remove_with(o.unordered_buffer,
                                {obj \in every :
                                    order_by(extract_order_field(obj), target) = "Equal"})
        probed   == ProbeRemove(o.main, target, blocks(o.main.file) \div 2,
                                blocks(o.main.file), FALSE, "Right", buffered.vec, <<>>)
    IN  [returned |-> probed.returned,
         vec      |-> probed.vec,
         path     |-> probed.path,
         order    |-> [o EXCEPT !.unordered_buffer = buffered.cbd,
                                !.main = probed.cbd]]

\* --------------------------------------------------------------- the inputs

\* An object of len bytes: 7s, closed by the byte last_byte.
Obj(len, last_byte) == [i \in 1..len |-> IF i = len THEN last_byte ELSE 7]

\* Objects that encode to 2 and to 29 bytes: one block and two blocks.
Objs == {Obj(1, 5), Obj(CONTENT_SIZE, 5)}

\* Objects whose encoding fills one block, or two, to the last byte, closed
\* by the Empty byte and by END_BYTE.
EdgeObjs == {Obj(CONTENT_SIZE - 1, MetadataEmpty), Obj(2 * CONTENT_SIZE - 1, END_BYTE)}

\* The predicates handed to first and filter, as the set of objects accepted.
Preds(objects) == {objects, {CHOOSE o \in objects : TRUE}}

Wanted == {None} \cup {Some(v) : v \in 1..MaxPrefill}

\* The caller's hash function: the first byte of the object.
hash_function(obj) == obj[1]

\* Objects for the shards 5 and 255.
HashObjs == {<<5>>, <<255>>}

\* The object for the shard 255 encodes to CONTENT_SIZE bytes closed by the
\* Empty byte.
HashEdgeObjs == {<<5>>, <<255>> \o Obj(CONTENT_SIZE - 2, MetadataEmpty)}

\* The handles asked of a HashCabide: the shards of HashObjs and one more.
HashHandles == {<<hash, block>> : hash \in {0, 5, 255}, block \in 0..(MaxShardBlocks - 1)}

\* The keys written to an OrderCabide, each once, and the objects holding them.
OrderKeys == 1..(BUFFER_MAX_BLOCKS + MaxExtraWrites)

OrderObjs == {<<key>> : key \in OrderKeys}

\* Records of other sizes: that of key 2 fills its one block to the last
\* byte and ends in a zero byte, that of key 4 takes two blocks.
OrderSized(key) ==
    IF key = 2 THEN <<key>> \o Obj(CONTENT_SIZE - 2, MetadataEmpty)
    ELSE IF key = 4 THEN <<key>> \o Obj(CONTENT_SIZE, 5)
    ELSE <<key>>

OrderSizedObjs == {OrderSized(key) : key \in OrderKeys}

\* What the filter |_| true of a flush accepts.
OrderAny == OrderObjs \cup OrderSizedObjs

\* The orders in which a HashMap may yield the keys S.
Orders(S) == {values \in [1..Cardinality(S) -> S] : Range(values) = S}

\* ----------------------------------------------------------------- the state

VARIABLES
    file,          \* the bytes of the file
    next_block,    \* Cabide.next_block
    empty_blocks,  \* Cabide.empty_blocks
    last,          \* the last call: its arguments and what it returned
    live,          \* <<handle, object>> of every write whose handle was not removed since
    session,       \* removed: a remove since the store was opened;
                   \* offscript: a write once followed a remove in one session
    lifo,          \* single-block runs released in a row and not handed out since
    appended,      \* blocks written since a new file was opened, -1 after a remove or reopen
    folder,        \* HashCabide.folder: the shard files
    cabides,       \* HashCabide.cabides
    order          \* the OrderCabide: unordered_buffer, main, sort_temp

vars == <<file, next_block, empty_blocks, last, live, session, lifo, appended,
          folder, cabides, order>>

\* What the calls on a single Cabide leave alone.
composed == <<folder, cabides, order>>

\* What the calls on a HashCabide leave alone.
single == <<file, next_block, empty_blocks, lifo, appended, order>>

\* What the calls on an OrderCabide leave alone.
unordered == <<file, next_block, empty_blocks, session, lifo, appended, folder, cabides>>

\* op: the call; block: the handle given or returned; obj: the object written;
\* res: the Result; run: the length of the free run a write took (0: none);
\* count: the blocks written or visited; list: what filter returned;
\* wanted: the blocks asked of new; top: the top of lifo before a write;
\* pred: the objects the predicate of first or filter accepts
Call(op, block, obj, res, run, count, list, wanted, top) ==
    [op |-> op, block |-> block, obj |-> obj, res |-> res, run |-> run,
     count |-> count, list |-> list, wanted |-> wanted, top |-> top, pred |-> {}]

Init ==
    \E wanted \in Wanted :
        LET cbd == new(<<>>, wanted)
        IN  /\ file = cbd.file
            /\ next_block = cbd.next_block
            /\ empty_blocks = cbd.empty_blocks
            /\ last = Call("create", 0, <<>>, Ok(<<>>), 0, 0, <<>>, wanted, <<>>)
            /\ live = {}
            /\ session = [removed |-> FALSE, offscript |-> FALSE]
            /\ lifo = <<>>
            /\ appended = 0
            /\ folder = NoShards
            /\ cabides = NoShards
            /\ order = OrderCabide_new

\* cbd.write(&obj)
Write(obj) ==
    LET raw            == serialize(obj)
        a              == Allocate(empty_blocks, raw)
        starting_block == IF a.found THEN a.starting_block ELSE next_block
        nblocks        == CeilDiv(Len(raw), CONTENT_SIZE)
    IN  /\ starting_block + nblocks <= MaxBlocks
        /\ file' = WriteAt(file, starting_block * BLOCK_SIZE, Framed(raw))
        /\ empty_blocks' = a.empty_blocks
        /\ next_block' = IF a.found THEN next_block ELSE AdvanceNextBlock(next_block, raw)
        /\ last' = Call("write", starting_block, obj, Ok(<<>>),
                        IF a.found THEN a.run ELSE 0, nblocks, <<>>, None,
                        IF nblocks = 1 /\ lifo # <<>> THEN <<Last(lifo)>> ELSE <<>>)
        /\ live' = live \cup {<<starting_block, obj>>}
        /\ session' = [session EXCEPT !.offscript = @ \/ session.removed]
        /\ lifo' = IF nblocks = 1 /\ lifo # <<>> THEN Front(lifo) ELSE <<>>
        /\ appended' = IF appended >= 0 THEN appended + nblocks ELSE appended
        /\ UNCHANGED composed

\* cbd.read(block)
Read(block) ==
    LET r == read_update_metadata(file, empty_blocks, block, FALSE)
    IN  /\ file' = r.file
        /\ empty_blocks' = r.empty_blocks
        /\ last' = Call("read", block, <<>>, r.res, 0, r.count, <<>>, None, <<>>)
        /\ UNCHANGED <<next_block, live, session, lifo, appended, composed>>

\* cbd.remove(block)
Remove(block) ==
    LET r == read_update_metadata(file, empty_blocks, block, TRUE)
    IN  /\ TotalRuns(r.empty_blocks) <= MaxRuns
        /\ file' = r.file
        /\ empty_blocks' = r.empty_blocks
        /\ last' = Call("remove", block, <<>>, r.res, 0, r.count, <<>>, None, <<>>)
        /\ live' = IF r.count > 0 THEN {p \in live : p[1] # block} ELSE live
        /\ session' = IF r.count > 0 THEN [session EXCEPT !.removed = TRUE] ELSE session
        /\ lifo' = IF r.count = 1 THEN Append(lifo, block)
                   ELSE IF r.count > 1 THEN <<>> ELSE lifo
        /\ appended' = IF r.count > 0 THEN -1 ELSE appended
        /\ UNCHANGED <<next_block, composed>>

\* cbd.first(|obj| wanted.contains(obj))
First(wanted) ==
    /\ last' = [Call("first", 0, <<>>, first(file, wanted), 0, 0, <<>>, None, <<>>)
                    EXCEPT !.pred = wanted]
    /\ UNCHANGED <<file, next_block, empty_blocks, live, session, lifo, appended, composed>>

\* cbd.filter(|obj| wanted.contains(obj))
Filter(wanted) ==
    /\ last' = [Call("filter", 0, <<>>, Ok(<<>>), 0, 0, filter(file, wanted), None, <<>>)
                    EXCEPT !.pred = wanted]
    /\ UNCHANGED <<file, next_block, empty_blocks, live, session, lifo, appended, composed>>

\* cbd = Cabide::new(path, wanted): the store is dropped and opened again
New(wanted) ==
    LET cbd == new(file, wanted)
    IN  /\ wanted.v <= MaxBlocks
        /\ file' = cbd.file
        /\ next_block' = cbd.next_block
        /\ empty_blocks' = cbd.empty_blocks
        /\ last' = Call("new", 0, <<>>, Ok(<<>>), 0, 0, <<>>, wanted, <<>>)
        /\ session' = [session EXCEPT !.removed = FALSE]
        /\ lifo' = <<>>
        /\ appended' = -1
        /\ UNCHANGED <<live, composed>>

Handles == 0..blocks(file)

Queries(objects) ==
    \/ \E block \in Handles : Read(block)
    \/ \E block \in Handles : Remove(block)
    \/ \E wanted \in Preds(objects) : First(wanted)
    \/ \E wanted \in Preds(objects) : Filter(wanted)
    \/ \E wanted \in Wanted : New(wanted)

Next ==
    \/ \E obj \in Objs : Write(obj)
    \/ Queries(Objs)

Spec == Init /\ [][Next]_vars

NextEdge ==
    \/ \E obj \in EdgeObjs : Write(obj)
    \/ Queries(EdgeObjs)

SpecEdge == Init /\ [][NextEdge]_vars

\* -------------------------------------------------------------- HashCabide
\* last.block is the handle (hash, block); live pairs handle and object;
\* session.offscript: a remove or a reopen came before.

InitHash ==
    /\ folder = NoShards
    /\ cabides = HashCabide_new(NoShards)
    /\ last = Call("create", <<0, 0>>, <<>>, Ok(<<>>), 0, 0, <<>>, None, <<>>)
    /\ live = {}
    /\ session = [removed |-> FALSE, offscript |-> FALSE]
    /\ file = <<>>
    /\ next_block = 0
    /\ empty_blocks = NoRuns
    /\ lifo = <<>>
    /\ appended = 0
    /\ order = OrderCabide_new

\* cbd.write(&obj)
HashWrite(obj) ==
    LET w == HashCabide_write(folder, cabides, hash_function(obj), obj)
    IN  /\ blocks(w.folder[w.handle[1]]) <= MaxShardBlocks
        /\ folder' = w.folder
        /\ cabides' = w.cabides
        /\ last' = Call("write", w.handle, obj, Ok(<<>>), 0, 0, <<>>, None, <<>>)
        /\ live' = live \cup {<<w.handle, obj>>}
        /\ UNCHANGED <<session, single>>

\* cbd.read((hash, block))
HashRead(handle) ==
    /\ last' = Call("read", handle, <<>>, HashCabide_read(folder, cabides, handle),
                    0, 0, <<>>, None, <<>>)
    /\ UNCHANGED <<folder, cabides, live, session, single>>

\* cbd.remove((hash, block))
HashRemove(handle) ==
    LET r == HashCabide_remove(folder, cabides, handle)
    IN  /\ \A hash \in DOMAIN r.cabides : TotalRuns(r.cabides[hash].empty_blocks) <= MaxRuns
        /\ folder' = r.folder
        /\ cabides' = r.cabides
        /\ last' = Call("remove", handle, <<>>, r.res, 0, r.count, <<>>, None, <<>>)
        /\ live' = IF r.count > 0 THEN {p \in live : p[1] # handle} ELSE live
        /\ session' = IF r.count > 0 THEN [removed |-> TRUE, offscript |-> TRUE]
                       ELSE session
        /\ UNCHANGED single

\* cbd.filter(|obj| wanted.contains(obj)), the HashMap yielding values
HashFilter(wanted, values) ==
    /\ last' = [Call("filter", <<0, 0>>, <<>>, Ok(<<>>), 0, 0,
                     HashCabide_filter(folder, values, wanted), None, <<>>)
                    EXCEPT !.pred = wanted]
    /\ UNCHANGED <<folder, cabides, live, session, single>>

\* cbd = HashCabide::new(folder, hash_function): the store is dropped and opened again
HashNew ==
    /\ cabides' = HashCabide_new(folder)
    /\ last' = Call("new", <<0, 0>>, <<>>, Ok(<<>>), 0, 0, <<>>, None, <<>>)
    /\ session' = [removed |-> FALSE, offscript |-> TRUE]
    /\ UNCHANGED <<folder, live, single>>

HashQueries(objects) ==
    \/ \E handle \in HashHandles : HashRead(handle)
    \/ \E handle \in HashHandles : HashRemove(handle)
    \/ \E wanted \in Preds(objects) : \E values \in Orders(DOMAIN cabides) :
            HashFilter(wanted, values)
    \/ HashNew

NextHash ==
    \/ \E obj \in HashObjs : HashWrite(obj)
    \/ HashQueries(HashObjs)

SpecHash == InitHash /\ [][NextHash]_vars

NextHashEdge ==
    \/ \E obj \in HashEdgeObjs : HashWrite(obj)
    \/ HashQueries(HashEdgeObjs)

SpecHashEdge == InitHash /\ [][NextHashEdge]_vars

\* ------------------------------------------------------------- OrderCabide
\* live pairs the key of a write with the object written.

InitOrder ==
    /\ order = OrderCabide_new
    /\ last = Call("create", 0, <<>>, Ok(<<>>), 0, 0, <<>>, None, <<>>)
    /\ live = {}
    /\ session = [removed |-> FALSE, offscript |-> FALSE]
    /\ file = <<>>
    /\ next_block = 0
    /\ empty_blocks = NoRuns
    /\ lifo = <<>>
    /\ appended = 0
    /\ folder = NoShards
    /\ cabides = NoShards

\* The keys written so far.
Written == {p[2][1] : p \in live}

\* The keys come in any order, each once.
NextKeys == OrderKeys \ Written

\* cbd.write(&obj)
OrderWrite(obj) ==
    /\ order' = OrderCabide_write(order, obj, OrderAny)
    /\ last' = Call("write", 0, obj, Ok(<<>>), 0, 0, <<>>, None, <<>>)
    /\ live' = live \cup {<<extract_order_field(obj), obj>>}
    /\ UNCHANGED unordered

\* cbd.filter(|field| Ord::cmp(field, &target)); res is Ok when the call
\* returns, and list the Vec returned (or pushed so far)
OrderFilter(target) ==
    LET r == OrderCabide_filter(order, target, OrderAny)
    IN  /\ last' = Call("filter", target, <<>>,
                        IF r.returned THEN Ok(<<>>) ELSE Err("NoReturn"),
                        0, 0, r.vec, None, <<>>)
        /\ UNCHANGED <<order, live, unordered>>

\* cbd.first(|field| Ord::cmp(field, &target)); res is the Option returned,
\* or NoReturn
OrderFirst(target) ==
    LET r == OrderCabide_first(order, target, OrderAny)
    IN  /\ last' = Call("first", target, <<>>,
                        IF r.returned THEN r.res ELSE Err("NoReturn"),
                        0, 0, <<>>, None, <<>>)
        /\ UNCHANGED <<order, live, unordered>>

\* The calls of remove so far, those past the first not told apart.
OrderRemoves == IF session.removed THEN 1 ELSE 0

\* cbd.remove(|field| Ord::cmp(field, &target)); live keeps the removed
\* writes, session remembers the call
OrderRemove(target) ==
    LET r == OrderCabide_remove(order, target, OrderAny)
    IN  /\ OrderRemoves < MaxOrderRemoves
        /\ TotalRuns(r.order.unordered_buffer.empty_blocks) <= MaxRuns
        /\ TotalRuns(r.order.main.empty_blocks) <= MaxRuns
        /\ order' = r.order
        /\ last' = Call("remove", target, <<>>,
                        IF r.returned THEN Ok(<<>>) ELSE Err("NoReturn"),
                        0, 0, r.vec, None, <<>>)
        /\ session' = [session EXCEPT !.removed = TRUE]
        /\ UNCHANGED <<live, file, next_block, empty_blocks, lifo, appended,
                       folder, cabides>>

OrderQueries ==
    \/ \E target \in OrderKeys : OrderFilter(target)
    \/ \E target \in OrderKeys : OrderFirst(target)
    \/ \E target \in OrderKeys : OrderRemove(target)

NextOrder ==
    \/ \E key \in NextKeys : OrderWrite(<<key>>)
    \/ OrderQueries

SpecOrder == InitOrder /\ [][NextOrder]_vars

NextOrderSized ==
    \/ \E key \in NextKeys : OrderWrite(OrderSized(key))
    \/ OrderQueries

SpecOrderSized == InitOrder /\ [][NextOrderSized]_vars

\* ------------------------------------------------------------------ claims

\* The blocks an object takes in the file: its encoded length over
\* CONTENT_SIZE, rounded up.
BlocksOf(obj) == CeilDiv(Len(serialize(obj)), CONTENT_SIZE)

\* The bytes of one block of the file.
BlockAt(f, block) == SubSeq(f, block * BLOCK_SIZE + 1, (block + 1) * BLOCK_SIZE)

\* Every live record reads back at its handle.
AllLiveReadable == \A p \in live : read(file, p[1]) = Ok(p[2])

\* The lengths of the runs the index holds that are long enough for obj.
FittingRuns(map, obj) == {n \in DOMAIN map : n >= BlocksOf(obj) /\ map[n] # <<>>}

\* C1: the handle a write returned, read at once, gives the object written,
\* whatever its encoded length and its last byte.
C1_RoundTrip == last.op = "write" => read(file, last.block) = Ok(last.obj)

\* C2: every handle a write returned and no remove took since reads back the
\* object written there: no write lands on the blocks of a live record.
C2_LiveNeverOverwritten == AllLiveReadable

\* C3: after a reopen every live record reads back at its handle, the writes
\* that came after a remove and a reopen included.
C3_Persistence == last.op = "new" /\ ~session.offscript => AllLiveReadable

\* C4: remove(h) of a live record returns the object stored there and tags
\* each of its blocks Empty, and from then on read(h) fails with EmptyBlock
\* until a write comes.
C4_RemoveRoundTrip ==
    [][/\ last'.op = "remove" =>
            \A p \in live : p[1] = last'.block =>
                /\ last'.res = Ok(p[2])
                /\ \A b \in p[1]..(p[1] + BlocksOf(p[2]) - 1) :
                        TagAt(file', b) = MetadataEmpty
                /\ read(file', p[1]) = Err("EmptyBlock")
       /\ last'.op # "write" =>
            \A h \in 0..(blocks(file) - 1) :
                read(file, h) = Err("EmptyBlock") => read(file', h) = Err("EmptyBlock")
      ]_vars

\* C5: a write for which the index holds a long enough run returns the start
\* of a run of the smallest such length, and leaves the cursor and blocks().
C5_FreedSpaceReused ==
    [][last'.op = "write" /\ FittingRuns(empty_blocks, last'.obj) # {} =>
            /\ last'.block \in Range(empty_blocks[Min(FittingRuns(empty_blocks, last'.obj))])
            /\ next_block' = next_block
            /\ blocks(file') = blocks(file)
      ]_vars

\* A write took a run longer than the record needs, below the cursor.
C5_Witness ==
    /\ last.op = "write"
    /\ last.run > last.count
    /\ last.block < next_block

\* C6: single-block runs released in a row are handed to the single-block
\* writes that follow last released first, each of them once.
C6_LifoReuse == last.op = "write" /\ last.top # <<>> => last.block = last.top[1]

\* C7: a write fills the blocks h..h+N-1, N the encoded length over
\* CONTENT_SIZE rounded up, tags them Start then Continuation, and changes
\* no other block.
C7_NoFragmentation ==
    [][last'.op = "write" =>
            LET h == last'.block
                N == BlocksOf(last'.obj)
            IN  /\ last'.count = N
                /\ TagAt(file', h) = MetadataStart
                /\ \A b \in (h + 1)..(h + N - 1) : TagAt(file', b) = MetadataContinuation
                /\ blocks(file') = Max({blocks(file), h + N})
                /\ \A b \in 0..(blocks(file') - 1) :
                        b \notin h..(h + N - 1) =>
                            /\ b < blocks(file)
                            /\ BlockAt(file', b) = BlockAt(file, b)
      ]_vars

\* A record of two blocks was written behind other blocks.
C7_Witness ==
    /\ last.op = "write"
    /\ last.count > 1
    /\ last.block > 0

\* C8: a write for which no run of the index is long enough returns the
\* cursor and moves it by N; writes to a new file return the sum of the
\* blocks written before them.
C8_AppendRule ==
    [][last'.op = "write" =>
            /\ FittingRuns(empty_blocks, last'.obj) = {} =>
                    /\ last'.block = next_block
                    /\ next_block' = next_block + BlocksOf(last'.obj)
            /\ appended >= 0 => last'.block = appended
      ]_vars

\* The third block of a new file was appended behind a two-block record.
C8_Witness ==
    /\ last.op = "write"
    /\ last.run = 0
    /\ last.block > 1
    /\ appended = last.block + last.count

\* C9: new with a minimum leaves max(b, m) blocks, new without leaves b; the
\* blocks there were are unchanged and those added are Empty.
C9_OpenMinimum ==
    /\ last.op = "create" =>
            /\ blocks(file) = (IF last.wanted.some THEN last.wanted.v ELSE 0)
            /\ \A i \in 1..Len(file) : file[i] = MetadataEmpty
    /\ [][last'.op = "new" =>
            /\ blocks(file') = (IF last'.wanted.some
                                THEN Max({blocks(file), last'.wanted.v})
                                ELSE blocks(file))
            /\ SubSeq(file', 1, Len(file)) = file
            /\ \A i \in (Len(file) + 1)..Len(file') : file'[i] = MetadataEmpty
         ]_vars

\* A store holding records was reopened with a minimum below its size.
C9_Witness ==
    /\ last.op = "new"
    /\ last.wanted.some
    /\ last.wanted.v < blocks(file)
    /\ live # {}

\* C10: blocks() never decreases.
C10_BlocksNeverDecrease == [][blocks(file') >= blocks(file)]_vars

\* The record at the end of the file was removed and the file kept its length.
C10_Witness ==
    /\ last.op = "remove"
    /\ last.count > 0
    /\ last.block + last.count = blocks(file)

\* The tag of every block of the file, in block order.
Tags(f) == [b \in 1..blocks(f) |-> TagAt(f, b - 1)]

\* C11: read(h) and remove(h) of a block tagged Empty fail with EmptyBlock,
\* of a block tagged Continuation with ContinuationBlock, and leave every
\* tag, the index and the cursor as they were.
C11_NonHeadIsError ==
    [][last'.op \in {"read", "remove"} /\ last'.block < blocks(file)
            /\ TagAt(file, last'.block) # MetadataStart =>
            /\ last'.res = Err(IF TagAt(file, last'.block) = MetadataEmpty
                               THEN "EmptyBlock" ELSE "ContinuationBlock")
            /\ Tags(file') = Tags(file)
            /\ empty_blocks' = empty_blocks
            /\ next_block' = next_block
      ]_vars

\* remove was called on the second block of a record.
C11_Witness ==
    /\ last.op = "remove"
    /\ last.res = Err("ContinuationBlock")
    /\ TagAt(file, last.block) = MetadataContinuation

\* C12: read leaves the file, the index and the cursor as they were, whatever
\* it returns, and the same read made again returns the same.
C12_ReadNonDestructive ==
    [][last'.op = "read" =>
            /\ file' = file
            /\ empty_blocks' = empty_blocks
            /\ next_block' = next_block
            /\ read(file', last'.block) = last'.res
      ]_vars

\* A record of two blocks was read, and the index held runs.
C12_Witness ==
    /\ last.op = "read"
    /\ last.res.kind = "Ok"
    /\ last.count > 1
    /\ TotalRuns(empty_blocks) > 0

\* The objects of the pairs, in ascending handle order, that are in wanted.
RECURSIVE LiveList(_, _)
LiveList(pairs, wanted) ==
    IF pairs = {} THEN <<>>
    ELSE LET p == CHOOSE x \in pairs : \A y \in pairs : x[1] <= y[1]
         IN  (IF p[2] \in wanted THEN <<p[2]>> ELSE <<>>)
             \o LiveList(pairs \ {p}, wanted)

\* C13: filter(p) returns the live records that satisfy p, each once and in
\* ascending handle order, and leaves the file, the index and the cursor.
C13_FilterExact ==
    [][last'.op = "filter" =>
            /\ last'.list = LiveList(live, last'.pred)
            /\ file' = file
            /\ empty_blocks' = empty_blocks
            /\ next_block' = next_block
      ]_vars

Occurrences(s, x) == Cardinality({i \in 1..Len(s) : s[i] = x})

\* Every live record of the HashCabide reads back at its handle.
AllShardsReadable ==
    \A p \in live : HashCabide_read(folder, cabides, p[1]) = Ok(p[2])

\* C15: while a HashCabide is only written to, every write returns the
\* handle (hash_function(v), block), and every handle returned reads back
\* the object written under it.
C15_HashRoundTrip ==
    last.op = "write" /\ ~session.offscript =>
        /\ last.block[1] = hash_function(last.obj)
        /\ AllShardsReadable

\* C16: read and remove of a handle whose hash has no shard opened fail with
\* NotExistant, open no shard and change no shard.
C16_ShardNotFound ==
    [][last'.op \in {"read", "remove"} /\ last'.block[1] \notin DOMAIN cabides =>
            /\ last'.res = Err("NotExistant")
            /\ cabides' = cabides
            /\ folder' = folder
      ]_vars

\* remove was asked for a hash never written, other shards being open.
C16_Witness ==
    /\ last.op = "remove"
    /\ last.res = Err("NotExistant")
    /\ last.block[1] \notin DOMAIN folder
    /\ DOMAIN cabides # {}

\* C17: after HashCabide::new every shard file of the folder is opened, the
\* one named 255 too, and every record of an earlier session reads back.
C17_OpenMaterializesAll ==
    last.op = "new" =>
        /\ DOMAIN cabides = DOMAIN folder
        /\ AllShardsReadable

\* C18: the HashCabide's filter(p) returns every live record that satisfies p
\* once, and nothing else.
C18_HashFilterUnion ==
    last.op = "filter" =>
        \A obj \in HashObjs :
            Occurrences(last.list, obj) =
                IF obj \in last.pred
                THEN Cardinality({p \in live : p[2] = obj}) ELSE 0

\* C19 as stated: the records filter returns come in ascending order of
\* their hash values.
C19_AscendingHash ==
    last.op = "filter" =>
        \A i, j \in 1..Len(last.list) :
            i < j => hash_function(last.list[i]) <= hash_function(last.list[j])

\* C19 as amended: the records filter returns are grouped by shard, the
\* records of one shard next to each other, whatever the order of the shards.
C19_GroupedByShard ==
    last.op = "filter" =>
        \A i, j, k \in 1..Len(last.list) :
            i < j /\ j < k
                /\ hash_function(last.list[i]) = hash_function(last.list[k]) =>
                    hash_function(last.list[j]) = hash_function(last.list[i])

\* filter returned the records of two shards, the higher hash value first.
C19_Witness ==
    /\ last.op = "filter"
    /\ Len(last.list) >= 3
    /\ hash_function(last.list[1]) > hash_function(last.list[Len(last.list)])

\* C20: once enough single-block records of distinct keys are written for a
\* flush to have happened, filter with the exact-match comparator of a key
\* written returns, and returns the record of that key, be it in the buffer
\* or in main.
C20_OrderMaintenance ==
    last.op = "filter" /\ last.block \in Written /\ blocks(order.main.file) > 0 =>
        /\ last.res.kind = "Ok"
        /\ last.list = <<<<last.block>>>>

\* The records a store of an OrderCabide yields, in ascending block number.
Held(cbd) == filter(cbd.file, OrderAny)

\* A write has just flushed the buffer into main.
Flushed == last.op = "write" /\ blocks(order.unordered_buffer.file) = 0

\* C21: when a write has flushed and nothing was removed before, main holds
\* every record written so far, each of them once.
C21_FlushKeepsAll ==
    Flushed /\ ~session.removed =>
        /\ Len(Held(order.main)) = Cardinality(live)
        /\ Range(Held(order.main)) = {p[2] : p \in live}

\* The keys of list never go down from one record to the next.
Sorted(list) ==
    \A i \in 1..(Len(list) - 1) :
        order_function(extract_order_field(list[i]),
                       extract_order_field(list[i + 1])) # "Greater"

\* C22: the records of main, read in ascending block number, are in
\* non-decreasing order of their keys, whatever was written, sought and
\* removed before.
C22_MainSorted == Sorted(Held(order.main))

\* A second flush has merged the buffer into a main that a remove had
\* taken records from.
C22_Witness ==
    /\ Flushed
    /\ session.removed
    /\ Len(Held(order.main)) >= BUFFER_MAX_BLOCKS
    /\ TotalRuns(order.main.empty_blocks) > 0

\* C23: every call of first, filter and remove on an OrderCabide returns.
C23_QueriesReturn ==
    last.op \in {"first", "filter", "remove"} => last.res.kind # "NoReturn"

\* C24: what filter has pushed holds no record twice (the keys written are
\* distinct, so two equal entries are one record of main pushed twice).
C24_PushedOnce ==
    last.op = "filter" =>
        \A i, j \in 1..Len(last.list) : last.list[i] = last.list[j] => i = j

\* The records an OrderCabide holds in its buffer and in main.
HeldBy(o) == Range(Held(o.unordered_buffer)) \cup Range(Held(o.main))

\* C25: a remove leaves every record of main whose key does not compare
\* Equal readable at its handle, and returns the records that the buffer
\* and main held before it and do not hold after it.
C25_RemoveOnlyMatches ==
    [][last'.op = "remove" =>
            /\ \A b \in 0..(blocks(order.main.file) - 1) :
                    LET r == read(order.main.file, b)
                    IN  /\ r.kind = "Ok"
                        /\ order_by(extract_order_field(r.obj), last'.block) # "Equal"
                        => read(order'.main.file, b) = r
            /\ Range(last'.list) = HeldBy(order) \ HeldBy(order')
      ]_vars

\* The runs of an index as pairs <<length, offset>>.
Runs(map) == UNION {{<<n, map[n][i]>> : i \in 1..Len(map[n])} : n \in DOMAIN map}

\* C26: every run of the index lies in the file and covers Empty-tagged
\* blocks only.
C26_IndexSound ==
    \A run \in Runs(empty_blocks) :
        \A b \in run[2]..(run[2] + run[1] - 1) :
            b < blocks(file) /\ TagAt(file, b) = MetadataEmpty

\* C27: a write of N blocks that takes a run of R blocks at offset o leaves,
\* if R > N, the run (R - N -> o + N) in the index and no run over any of
\* o..o+N-1, and adds no run if R = N; no run of the index has length 0.
C27_SplitRemainder ==
    [][last'.op = "write" /\ last'.run > 0 =>
            LET R     == last'.run
                N     == BlocksOf(last'.obj)
                o     == last'.block
                after == Runs(empty_blocks')
            IN  /\ R > N =>
                    /\ <<R - N, o + N>> \in after
                    /\ \A run \in after :
                            run[2] + run[1] <= o \/ run[2] >= o + N
                /\ R = N => after \subseteq Runs(empty_blocks) \ {<<R, o>>}
                /\ 0 \notin DOMAIN empty_blocks'
      ]_vars

\* C28: a write for which the index holds runs long enough takes a run of
\* the least length that is long enough, wherever the runs lie.
C28_BestFit ==
    [][last'.op = "write" /\ FittingRuns(empty_blocks, last'.obj) # {} =>
            /\ last'.run = Min(FittingRuns(empty_blocks, last'.obj))
            /\ <<last'.run, last'.block>> \in Runs(empty_blocks)
      ]_vars

\* A write took a run although the index held a longer one further down
\* in the file, which it still holds.
C28_Witness ==
    /\ last.op = "write"
    /\ last.run > 0
    /\ \E run \in Runs(empty_blocks) : run[1] > last.run /\ run[2] < last.block

\* C29: between calls no key of the index maps to an empty list.
C29_NoDanglingBuckets == \A n \in DOMAIN empty_blocks : empty_blocks[n] # <<>>

\* The Empty-tagged blocks in a row from block o on, below the cursor.
RECURSIVE EmptyExtent(_, _, _)
EmptyExtent(f, o, cursor) ==
    IF o < cursor /\ o < blocks(f) /\ TagAt(f, o) = MetadataEmpty
    THEN 1 + EmptyExtent(f, o + 1, cursor)
    ELSE 0

\* C30: the length of every run of the index is the number of Empty-tagged
\* blocks that lie in a row from its offset on, below the append cursor.
C30_RunsExact ==
    \A run \in Runs(empty_blocks) : run[1] = EmptyExtent(file, run[2], next_block)

\* The maximal runs of Empty-tagged blocks of a file, as <<length, offset>>.
MaximalRuns(f) ==
    {<<n, o>> \in (1..blocks(f)) \X (0..(blocks(f) - 1)) :
        /\ o + n <= blocks(f)
        /\ \A b \in o..(o + n - 1) : TagAt(f, b) = MetadataEmpty
        /\ o > 0 => TagAt(f, o - 1) # MetadataEmpty
        /\ o + n < blocks(f) => TagAt(f, o + n) # MetadataEmpty}

\* C31: opening a file of b > 0 blocks leaves the cursor at b and an index
\* that holds every maximal run of Empty-tagged blocks of the file, the one
\* that ends at the last block included, once and under its length, and
\* nothing else.
C31_ScanComplete ==
    [][last'.op = "new" /\ blocks(file) > 0 =>
            /\ Runs(empty_blocks') = MaximalRuns(file)
            /\ TotalRuns(empty_blocks') = Cardinality(MaximalRuns(file))
            /\ next_block' = blocks(file)
      ]_vars

\* Reading at block fails with an error other than EmptyBlock and
\* ContinuationBlock.
Undecodable(f, block) ==
    read(f, block).kind \notin {"Ok", "EmptyBlock", "ContinuationBlock"}

\* A record that decodes and that the predicate accepts starts at block.
Accepted(f, block, wanted) ==
    read(f, block).kind = "Ok" /\ read(f, block).obj \in wanted

\* What filter returned is the decodable records its predicate accepts,
\* all of them and each once.
FilterSkips ==
    last.op = "filter" =>
        /\ Len(last.list) =
                Cardinality({b \in 0..(blocks(file) - 1) : Accepted(file, b, last.pred)})
        /\ \A b \in 0..(blocks(file) - 1) :
                Accepted(file, b, last.pred) => read(file, b).obj \in Range(last.list)

C32_WitnessFilter ==
    /\ last.op = "filter"
    /\ last.list # <<>>
    /\ \E b \in 0..(blocks(file) - 1) :
            /\ Undecodable(file, b)
            /\ \E c \in (b + 1)..(blocks(file) - 1) : Accepted(file, c, last.pred)

\* C33: a remove at a Start block that returns CorruptedBlock leaves the
\* file and the index as they were.
C33_FailedRemoveKeeps ==
    [][/\ last'.op = "remove"
       /\ last'.res = Err("CorruptedBlock")
       /\ last'.block < blocks(file)
       /\ TagAt(file, last'.block) = MetadataStart
       => file' = file /\ empty_blocks' = empty_blocks
      ]_vars

\* The i-th chunk (from 0) of the encoding of obj.
ChunkOf(obj, i) ==
    SubSeq(serialize(obj), i * CONTENT_SIZE + 1,
           Min({(i + 1) * CONTENT_SIZE, Len(serialize(obj))}))

\* block holds the i-th chunk of obj: the tag, the chunk and Empty bytes up
\* to BLOCK_SIZE, but for the byte behind the chunk, which is END_BYTE if
\* and only if closed.
FramedBlock(block, obj, i, closed) ==
    LET chunk == ChunkOf(obj, i)
        n     == Len(chunk)
    IN  /\ Len(block) = BLOCK_SIZE
        /\ block[1] = (IF i = 0 THEN MetadataStart ELSE MetadataContinuation)
        /\ SubSeq(block, 2, n + 1) = chunk
        /\ closed <=> block[n + 2] = END_BYTE
        /\ \A k \in (n + 3)..BLOCK_SIZE : block[k] = MetadataEmpty

\* C34 as stated: the file is whole blocks, every block a write fills has
\* BLOCK_SIZE bytes, END_BYTE stands behind the final chunk only, and the
\* rest of the final block is Empty bytes.
C34_EndAfterFinalChunk ==
    /\ [](Len(file) % BLOCK_SIZE = 0)
    /\ [][last'.op = "write" =>
            \A i \in 0..(BlocksOf(last'.obj) - 1) :
                FramedBlock(BlockAt(file', last'.block + i), last'.obj, i,
                            i = BlocksOf(last'.obj) - 1)
         ]_vars

\* C34: the file is whole blocks, every block a write fills has BLOCK_SIZE
\* bytes: the tag, the chunk, END_BYTE behind every chunk, and Empty bytes
\* for the rest of the final block.
C34_EndAfterEveryChunk ==
    /\ [](Len(file) % BLOCK_SIZE = 0)
    /\ [][last'.op = "write" =>
            \A i \in 0..(BlocksOf(last'.obj) - 1) :
                FramedBlock(BlockAt(file', last'.block + i), last'.obj, i, TRUE)
         ]_vars

\* A record of two blocks was written: END_BYTE closes its first block and
\* stands behind the one byte of its final chunk.
C34_Witness ==
    /\ last.op = "write"
    /\ last.count = 2
    /\ BlockAt(file, last.block)[BLOCK_SIZE] = END_BYTE
    /\ Len(ChunkOf(last.obj, 1)) = 1
    /\ BlockAt(file, last.block + 1)[3] = END_BYTE

\* C35: the buffer always has fewer than BUFFER_MAX_BLOCKS blocks between
\* calls; a write that brings it to BUFFER_MAX_BLOCKS or more leaves the
\* buffer and sort_temp with no block and main with the records of both;
\* any other write appends to the buffer and leaves main as it was.
C35_BufferBound ==
    /\ [](blocks(order.unordered_buffer.file) < BUFFER_MAX_BLOCKS)
    /\ [][last'.op = "write" =>
            LET grown == write(order.unordered_buffer, last'.obj).cbd
            IN  IF blocks(grown.file) >= BUFFER_MAX_BLOCKS
                THEN /\ blocks(order'.unordered_buffer.file) = 0
                     /\ blocks(order'.sort_temp.file) = 0
                     /\ Len(Held(order'.main)) = Len(Held(order.main)) + Len(Held(grown))
                ELSE /\ order'.unordered_buffer = grown
                     /\ order'.main = order.main
         ]_vars

\* The write of a two-block record has flushed a buffer into a main that
\* held records before.
C35_Witness ==
    /\ Flushed
    /\ BlocksOf(last.obj) = 2
    /\ Len(Held(order.main)) > BUFFER_MAX_BLOCKS

\* The objects of key target, and those the buffer of o holds, in block order.
Matching(target) ==
    {obj \in OrderAny : order_by(extract_order_field(obj), target) = "Equal"}

BufferMatches(o, target) == SelectSeq(Held(o.unordered_buffer), LAMBDA obj : obj \in Matching(target))

\* list opens with the records of prefix, and what follows are records of main.
BufferThenMain(list, prefix, main) ==
    /\ Len(list) >= Len(prefix)
    /\ SubSeq(list, 1, Len(prefix)) = prefix
    /\ \A i \in (Len(prefix) + 1)..Len(list) : list[i] \in Range(Held(main))

\* C36: what filter and remove return opens with every matching record of
\* the buffer, in block order, followed by records of main only; first
\* returns the first matching record of the buffer whenever there is one.
C36_BufferBeforeMain ==
    [][/\ last'.op \in {"filter", "remove"} =>
            BufferThenMain(last'.list, BufferMatches(order, last'.block), order.main)
       /\ (last'.op = "first" /\ BufferMatches(order, last'.block) # <<>>) =>
            last'.res = Ok(BufferMatches(order, last'.block)[1])
      ]_vars

\* No block of f opens a record.
NoHeads(f) == \A block \in 0..(blocks(f) - 1) : TagAt(f, block) # MetadataStart

\* The passes of a probe: the block, has_found_something and going of each.
Steps(path) == [i \in 1..Len(path) |-> <<path[i][1], path[i][2], path[i][3]>>]

\* The walk over n blocks that finds nothing: right from the midpoint to n,
\* then left from the midpoint to 0.
Walk(n) ==
    [i \in 1..(n - n \div 2 + 1) |-> <<n \div 2 + i - 1, FALSE, "Right">>]
    \o [i \in 1..(n \div 2 + 1) |-> <<n \div 2 - i + 1, FALSE, "Left">>]

\* What the call op for the key target returns from the present state.
Probed(op, target) ==
    IF op = "first" THEN OrderCabide_first(order, target, OrderAny)
    ELSE IF op = "filter" THEN OrderCabide_filter(order, target, OrderAny)
    ELSE OrderCabide_remove(order, target, OrderAny)

\* C37: on a main without a Start block the probe of first, filter and
\* remove returns after the passes of Walk: right from the midpoint to
\* total_blocks, once back to the midpoint, left to block 0; first gives
\* None, filter and remove the matching records of the buffer alone.
C37_ProbeNoHeads ==
    [][(last'.op \in {"first", "filter", "remove"} /\ NoHeads(order.main.file)) =>
          LET r        == Probed(last'.op, last'.block)
              buffered == BufferMatches(order, last'.block)
          IN  IF last'.op = "first"
              THEN \/ last'.res.kind = "Ok" /\ r.path = <<>>
                   \/ /\ last'.res = Err("None")
                      /\ Steps(r.path) = Walk(blocks(order.main.file))
              ELSE /\ last'.res = Ok(<<>>)
                   /\ last'.list = buffered
                   /\ Steps(r.path) = Walk(blocks(order.main.file))
      ]_vars

\* filter has returned from a main whose blocks are all Empty.
C37_Witness ==
    /\ last.op = "filter"
    /\ last.res = Ok(<<>>)
    /\ blocks(order.main.file) > 1
    /\ NoHeads(order.main.file)

\* The entries of the index: the length n and the place i in the Vec of n.
Slots(map) == UNION {{<<n, i>> : i \in 1..Len(map[n])} : n \in DOMAIN map}

\* The blocks the entry covers: as many as its length, from its offset on.
Extent(map, slot) == map[slot[1]][slot[2]]..(map[slot[1]][slot[2]] + slot[1] - 1)

\* C38: no two entries of the index start at the same block, and no block
\* is covered by two of them.
C38_RunsDisjoint ==
    \A a, b \in Slots(empty_blocks) :
        a # b => /\ empty_blocks[a[1]][a[2]] # empty_blocks[b[1]][b[2]]
                 /\ Extent(empty_blocks, a) \cap Extent(empty_blocks, b) = {}

\* What the pass of a probe of op reads at its block: remove reads the
\* store as the passes before left it, first and filter the main of now.
ReadAt(op, pass) ==
    IF op = "remove" THEN remove(pass[4], pass[1]).res
    ELSE read(order.main.file, pass[1])

\* How what the pass reads compares to target; None when it reads no record.
Compared(op, pass, target) ==
    LET r == ReadAt(op, pass)
    IN  IF r.kind = "Ok" THEN order_by(extract_order_field(r.obj), target) ELSE "None"

\* The block of the pass next follows from that of pass as the loop over
\* n blocks moves it.
Moved(op, target, n, pass, next) ==
    LET block == pass[1]
        ord   == Compared(op, pass, target)
    IN  IF ord = "Equal" THEN next[1] = block
        ELSE IF ord = "Less" THEN block < n /\ next[1] = block + (n - block) \div 2
        ELSE IF ord = "Greater" THEN block > 0 /\ next[1] = block - block \div 2
        ELSE IF pass[3] = "Left" THEN block > 0 /\ next[1] = block - 1
        ELSE IF block = n THEN next[1] = n \div 2 /\ next[3] = "Left"
        ELSE next[1] = block + 1

\* The passes path of a probe of op over n blocks start at the midpoint,
\* stay within 0..n and follow one another as Moved has it.
Bounded(op, target, n, path) ==
    /\ path # <<>> => path[1][1] = n \div 2
    /\ \A i \in 1..Len(path) : path[i][1] \in 0..n
    /\ \A i \in 1..(Len(path) - 1) : Moved(op, target, n, path[i], path[i + 1])

\* C39: from every state and for every key, the probe of first, filter and
\* remove starts at total_blocks / 2,
\* its block stays within 0..total_blocks, a Less step adds half the
\* distance to total_blocks, a Greater step takes half the distance to 0,
\* and a nudge moves by one, never past block 0 or total_blocks.
C39_PointerBounds ==
    \A op \in {"first", "filter", "remove"}, target \in OrderKeys :
        Bounded(op, target, blocks(order.main.file), Probed(op, target).path)

\* first has probed a main where it took a Less step and a Greater step.
C39_Witness ==
    /\ last.op = "first"
    /\ LET path == Probed("first", last.block).path
       IN  \E i, j \in 1..(Len(path) - 1) :
               /\ Compared("first", path[i], last.block) = "Less"
               /\ Compared("first", path[j], last.block) = "Greater"

====
